---- MODULE Spec2Model ----
(***************************************************************************)
(* Model of the multi-stage fallback query-resolution controller of        *)
(* agent.py and gg.py: main()'s interactive loop, the candidate ranker     *)
(* suggest_db_collection_candidates, the schema introspector               *)
(* get_collection_schema and the two strategies try_query_with_match and   *)
(* try_query_with_aggregation.                                             *)
(*                                                                         *)
(* The two source files hold two versions of the same program; variant   *)
(* says which one runs.  Every await / collaborator call is a suspension   *)
(* point of the single thread of control and is one step of the model;     *)
(* the outcome of a collaborator (return value or raised exception) is a   *)
(* nondeterministic input of the step.                                     *)
(***************************************************************************)
EXTENDS Integers, Sequences, FiniteSets, TLC

VARIABLES
    variant,        \* "agent" (agent.py) or "gg" (gg.py)
    pc,             \* position of main(): the call it is about to make
    iter,           \* number of iterations of while True begun
    user_input,     \* local of main(); stamped with the iteration that read it
    candidates,     \* local of main(): what the ranker returned
    idx,            \* number of items the for candidate in candidates has consumed
    schema,         \* local of main()
    match_result,   \* local of main()
    agg_result,     \* local of main()
    db_names,       \* local of suggest_db_collection_candidates
    db_coll_map,    \* local of suggest_db_collection_candidates (its keys)
    dbi,            \* position of for db in db_names
    log,            \* history: the collaborator calls of the current iteration
    last_call,      \* history: the last call, with the collaborator's raw outcome
    output,         \* what the current iteration printed as its final outcome
    error,          \* the exception that aborted the process, if any
    mci_obj,        \* make_case_insensitive: the obj it is given
    mci_schema,     \* make_case_insensitive: the schema it is given
    mci_out,        \* what make_case_insensitive(obj, schema) returned
    mci_out2,       \* what make_case_insensitive of that result returned
    mci_n           \* how many times make_case_insensitive was applied

vars == <<variant, pc, iter, user_input, candidates, idx, schema, match_result,
          agg_result, db_names, db_coll_map, dbi, log, last_call, output, error,
          mci_obj, mci_schema, mci_out, mci_out2, mci_n>>

mciVars == <<mci_obj, mci_schema, mci_out, mci_out2, mci_n>>
mainVars == <<variant, pc, iter, user_input, candidates, idx, schema, match_result,
              agg_result, db_names, db_coll_map, dbi, log, last_call, output, error>>

----------------------------------------------------------------------------
(* Bounds of the model *)

MaxIter == 2        \* iterations of the interactive loop that are explored
MaxRespLen == 4     \* longest JSON array the ranking completion returns
MaxDbs == 2         \* most databases list-databases reports
MaxDepth == 3       \* deepest nesting of the filters given to make_case_insensitive

\* the number of pairs the ranking prompt asks for (agent.py 41, gg.py 46)
TopN == 3

----------------------------------------------------------------------------
(* Values *)

Variants == {"agent", "gg"}

None == "None"
Unbound == "unbound"        \* a Python local that was never assigned
Leftover == "leftover"      \* a local still holding a value of an earlier iteration

\* results a collaborator (agent.run, client.aggregate, agent.ainvoke) can return
Results == {"docs", "found0_text", "empty_list", "empty_text", None}

\* isinstance(result, str)
IsStr(r) == r \in {"found0_text", "fbacktickound0_text", "empty_text"}

\* "Found 0" in result
ContainsFound0(r) == r = "found0_text"

\* gg.py line 84 looks for the text F, backtick, ound 0: a text with a backtick
\* inside the word, which is not the zero-results report of the query engine
ContainsFBacktickound0(r) == r = "fbacktickound0_text"

\* variant of Truthy that only tests for None
Truthy_NotNone(r) == r # None

\* Python truthiness of a result: if match_result: / if agg_result:
Truthy(r) == r \in {"docs", "found0_text"}

\* what input() can give: a request, an exit command in any case, or EOFError
Inputs == {"find red cars", "exit", "QUIT"}

\* user_input.strip().lower()
Lower(s) == CASE s = "QUIT" -> "quit" [] OTHER -> s

ExitCommands == {"exit", "quit"}

UnboundInput == [bound |-> FALSE, text |-> "", iter |-> 0]

Absent == "<absent>"    \* a key an object does not have

\* an item of the candidate list: a JSON object with (some of) the two keys,
\* or a string (a key of a JSON object, a character of a JSON string)
Object(d, c) == [t |-> "object", database |-> d, collection |-> c]
StrItem == [t |-> "string", database |-> Absent, collection |-> Absent]

\* the embedded default candidate (agent.py line 51, gg.py line 57)
DefaultCandidate == Object("car_database", "cars")

\* a parsed JSON document: its type and what iterating over it yields
Array(s) == [t |-> "array", v |-> s]
DefaultList == Array(<<DefaultCandidate>>)
UnboundDoc == [t |-> Unbound, v |-> <<>>]
LeftoverDoc == [t |-> Leftover, v |-> <<>>]

\* elements of the arrays the ranking completion returns
ArrayElems == {DefaultCandidate, Object("db1", "coll1"), Object("db1", Absent)}

SeqsUpTo(S, n) == UNION {[1..k -> S] : k \in 0..n}

\* documents the ranking completion can return when its text is valid JSON
RankDocs ==
    {Array(s) : s \in SeqsUpTo(ArrayElems, MaxRespLen)}
    \cup {[t |-> "object", v |-> <<StrItem, StrItem>>],   \* {"database":..,"collection":..}
          [t |-> "object", v |-> <<>>],                   \* {}
          [t |-> "string", v |-> <<StrItem>>],            \* "x"
          [t |-> "number", v |-> <<>>],                   \* 42
          [t |-> "null", v |-> <<>>]}                     \* null

\* the text of a completion: either not JSON at all, or the text of a document
BadJSON == [json |-> FALSE, doc |-> UnboundDoc]
RankContents == {BadJSON} \cup {[json |-> TRUE, doc |-> d] : d \in RankDocs}

Databases == <<"car_database", "db1", "db2">>

\* the schema documents client.collection_schema can return
SchemaDocs == {<<>>,
               <<[name |-> "make", bsonType |-> "string"],
                 [name |-> "year", bsonType |-> "int"]>>}

NoSchema(tag) == [t |-> tag, fields |-> <<>>, string_fields |-> <<>>]

NoCall == [op |-> "none", i |-> 0, raw |-> None, ret |-> None]
NoOutput == [kind |-> "none", i |-> 0, val |-> None]

----------------------------------------------------------------------------
(* Pure functions *)

\* json.loads(content.strip()): raises on text that is not JSON
JsonLoadsRaises(content) == ~content.json
JsonLoads(content) == content.doc

\* iter(candidates) of the for statement: TypeError on a number or null
Iterable(doc) == doc.t \in {"array", "object", "string"}

\* candidate["database"], candidate["collection"] (agent.py 139, gg.py 145):
\* TypeError on a string item, KeyError on an object without the key
SubscriptError(c) ==
    IF c.t # "object" THEN "TypeError"
    ELSE IF c.database = Absent \/ c.collection = Absent THEN "KeyError"
    ELSE "none"

\* [f["name"] for f in schema.get("fields", []) if f.get("bsonType") == "string"]
StringFieldsOf(fields) ==
    LET sel == SelectSeq(fields, LAMBDA f : f.bsonType = "string")
    IN [k \in 1..Len(sel) |-> sel[k].name]

\* get_collection_schema's return value: {**schema, "string_fields": string_fields}
get_collection_schema(fields) ==
    [t |-> "schema", fields |-> fields, string_fields |-> StringFieldsOf(fields)]

----------------------------------------------------------------------------
(* make_case_insensitive (agent.py 9-20, gg.py 10-22, the same text) *)

\* parsed JSON values: a dict is its sequence of <<key, value>> pairs in
\* insertion order, a list is its sequence of values, each paired with ""
Str(x) == [t |-> "str", s |-> x, d |-> <<>>]
Num == [t |-> "num", s |-> "", d |-> <<>>]
Dict(pairs) == [t |-> "dict", s |-> "", d |-> pairs]
List(elems) == [t |-> "list", s |-> "", d |-> [n \in 1..Len(elems) |-> <<"", elems[n]>>]]
NoValue == [t |-> "unset", s |-> "", d |-> <<>>]

\* elements of a sequence
Range(q) == {q[k] : k \in 1..Len(q)}

\* {"$regex": v, "$options": "i"}
Pattern(x) == Dict(<< <<"$regex", Str(x)>>, <<"$options", Str("i")>> >>)

\* variant of ShouldWrap that wraps every string value
ShouldWrap_AnyKey(k, v, sch) == v.t = "str"

\* isinstance(v, str) and k in schema.get("string_fields", [])
ShouldWrap(k, v, sch) == v.t = "str" /\ k \in Range(sch.string_fields)

RECURSIVE make_case_insensitive(_, _)
make_case_insensitive(obj, sch) ==
    IF obj.t = "dict"
    THEN Dict([n \in 1..Len(obj.d) |->
            LET k == obj.d[n][1]
                v == obj.d[n][2]
            IN IF ShouldWrap(k, v, sch) THEN <<k, Pattern(v.s)>>
               ELSE IF v.t = "dict" THEN <<k, make_case_insensitive(v, sch)>>
               ELSE <<k, v>>])
    ELSE obj

\* keys of the filters the completion writes: a string field, a numeric
\* field, and the operator name of a pattern condition
FilterKeys == {"color", "year", "$regex"}
FilterLeaves == {Str("red"), Num}

\* the filters of nesting depth at most n: dicts of one pair, or of two pairs
\* with distinct keys whose second value is a string; lists of one value
RECURSIVE FilterVals(_)
FilterDicts(n) ==
    LET inner == FilterVals(n - 1) IN
    {Dict(<<>>)}
    \cup {Dict(<< <<k, v>> >>) : k \in FilterKeys, v \in inner}
    \cup UNION {{Dict(<< <<kk[1], v>>, <<kk[2], Str("red")>> >>) : v \in inner}
                  : kk \in {q \in FilterKeys \X FilterKeys : q[1] # q[2]}}

FilterVals(n) ==
    IF n = 0 THEN FilterLeaves
    ELSE FilterLeaves \cup FilterDicts(n) \cup {List(<<v>>) : v \in FilterVals(n - 1)}

\* the schemas: every key is a field; year is an int, the others a string or
\* an int
FieldDocs ==
    {<<[name |-> "color", bsonType |-> a], [name |-> "year", bsonType |-> "int"],
       [name |-> "$regex", bsonType |-> c]>> : a, c \in {"string", "int"}}

----------------------------------------------------------------------------
(* Decisions of the code, one operator per condition *)

\* variant of AgentFoundNothing that forgets the zero-results test
AgentFoundNothing_NoCheck(r) == FALSE

\* agent.py 127, gg.py 133: the agent's answer signals zero results
AgentFoundNothing(r) == IsStr(r) /\ ContainsFound0(r)

\* agent.py 75, gg.py 84: the $match result signals zero results
MatchFoundNothing(v, r) ==
    IsStr(r) /\ IF v = "agent" THEN ContainsFound0(r) ELSE ContainsFBacktickound0(r)

\* outcomes of the calls inside a strategy that end in its except Exception
StrategyErrors == {"llm_raise", "bad_json", "aggregate_raise"}

\* try_query_with_match: what it returns for the raw outcome of its calls
try_query_with_match(v, raw) ==
    IF raw \in StrategyErrors THEN None
    ELSE IF MatchFoundNothing(v, raw) THEN None
    ELSE raw

\* the same for try_query_with_aggregation: agent.py asks the completion for a
\* pipeline, parses it and submits it; gg.py builds a tool and runs an agent
AggErrors(v) ==
    IF v = "agent" THEN StrategyErrors ELSE {"tool_raise", "agent_raise"}

\* try_query_with_aggregation: what it returns for the raw outcome of its calls
try_query_with_aggregation(v, raw) ==
    IF raw \in AggErrors(v) THEN None ELSE raw

\* variants of SchemaNext: the two strategies swapped; the continue missing
SchemaNext_AggFirst(raised) == IF raised THEN "for" ELSE "agg"
SchemaNext_NoContinue(raised) == "match"

\* main(), after the schema fetch: continue on an exception, else Match
SchemaNext(raised) == IF raised THEN "for" ELSE "match"

\* variant of LoopExhausted that stops one candidate early
LoopExhausted_Early(i, doc) == i >= Len(doc.v) - 1

\* main(), for candidate in candidates: the iterator has no further item
LoopExhausted(i, doc) == i >= Len(doc.v)

\* variant of MatchNext without the break
MatchNext_NoBreak(r) == "agg"

\* main(), if match_result: ... break, else Aggregate
MatchNext(r) == IF Truthy(r) THEN "input" ELSE "agg"

\* variant of AggNext without the break
AggNext_NoBreak(r) == "for"

\* main(), if agg_result: ... break, else the next candidate
AggNext(r) == IF Truthy(r) THEN "input" ELSE "for"

----------------------------------------------------------------------------
(* State *)

Entry(op, i, ok) == [op |-> op, i |-> i, ok |-> ok]
Call(op, i, raw, ret) == [op |-> op, i |-> i, raw |-> raw, ret |-> ret]

InitMain ==
    /\ variant \in Variants
    /\ pc = "input"
    /\ iter = 0
    /\ user_input = UnboundInput
    /\ candidates = UnboundDoc
    /\ idx = 0
    /\ schema = NoSchema(Unbound)
    /\ match_result = Unbound
    /\ agg_result = Unbound
    /\ db_names = <<>>
    /\ db_coll_map = {}
    /\ dbi = 0
    /\ log = <<>>
    /\ last_call = NoCall
    /\ output = NoOutput
    /\ error = "none"

\* main() has not called make_case_insensitive
Init ==
    /\ InitMain
    /\ mci_obj = NoValue
    /\ mci_schema = NoSchema(Unbound)
    /\ mci_out = NoValue
    /\ mci_out2 = NoValue
    /\ mci_n = 0

rankLocals == <<db_names, db_coll_map, dbi>>
loopLocals == <<candidates, idx, schema, match_result, agg_result>>

\* the process dies with an uncaught exception
Crash(e) == pc' = "crashed" /\ error' = e

\* except Exception of the while body (agent.py 132-133), then the first
\* statement of the retry path, which evaluates user_input (agent.py 136)
EnterFallback(ui) ==
    IF ui.bound THEN pc' = "list_dbs" /\ error' = error
    ELSE Crash("UnboundLocalError")

\* a local of an earlier iteration keeps its value until it is assigned again;
\* what the value was is abstracted to Leftover
Stale(x) == IF x = Unbound THEN Unbound ELSE Leftover
StaleDoc(d) == IF d.t = Unbound THEN UnboundDoc ELSE LeftoverDoc
StaleSchema(s) == IF s.t = Unbound THEN NoSchema(Unbound) ELSE NoSchema(Leftover)

\* agent.py 114-119, gg.py 120-125: top of the while loop, input()
ReadRequest ==
    /\ pc = "input"
    /\ iter < MaxIter
    /\ iter' = iter + 1
    /\ log' = <<>>
    /\ last_call' = NoCall
    /\ output' = NoOutput
    /\ candidates' = StaleDoc(candidates)
    /\ schema' = StaleSchema(schema)
    /\ match_result' = Stale(match_result)
    /\ agg_result' = Stale(agg_result)
    /\ idx' = 0
    /\ \E o \in Inputs \cup {"EOFError"} :
        IF o = "EOFError"
        THEN /\ user_input' = user_input
             /\ EnterFallback(user_input)
        ELSE /\ user_input' = [bound |-> TRUE, text |-> o, iter |-> iter + 1]
             /\ error' = error
             /\ pc' = IF Lower(o) \in ExitCommands THEN "exited" ELSE "plan"
    /\ UNCHANGED <<mciVars, variant, rankLocals>>

\* agent.py 121-123, gg.py 127-129: the planning completion
Plan ==
    /\ pc = "plan"
    /\ \E raised \in BOOLEAN :
        /\ log' = Append(log, Entry("plan", 0, ~raised))
        /\ last_call' = Call("plan", 0, IF raised THEN "llm_raise" ELSE "docs", None)
        /\ IF raised THEN EnterFallback(user_input)
           ELSE pc' = "agent" /\ error' = error
    /\ UNCHANGED <<mciVars, variant, iter, user_input, loopLocals, rankLocals, output>>

\* agent.py 125-133, gg.py 131-139: the autonomous agent attempt
AgentRun ==
    /\ pc = "agent"
    /\ \E raw \in Results \cup {"agent_raise"} :
        LET final == raw # "agent_raise" /\ ~AgentFoundNothing(raw) IN
        /\ log' = Append(log, Entry("agent", 0, final))
        /\ last_call' = Call("agent", 0, raw, IF raw = "agent_raise" THEN None ELSE raw)
        /\ IF final
           THEN /\ output' = [kind |-> "agent", i |-> 0, val |-> raw]
                /\ pc' = "input"
                /\ error' = error
           ELSE /\ output' = output
                /\ EnterFallback(user_input)
    /\ UNCHANGED <<mciVars, variant, iter, user_input, loopLocals, rankLocals>>

\* suggest_db_collection_candidates returns c to agent.py 136 / gg.py 142;
\* its locals die with its frame and the for statement takes a new iterator
RankReturn(c, ranked) ==
    /\ candidates' = c
    /\ idx' = 0
    /\ db_names' = <<>>
    /\ db_coll_map' = {}
    /\ dbi' = 0
    /\ log' = Append(log, Entry("rank", 0, ranked))
    /\ pc' = "for"

\* agent.py 25-27, gg.py 28-30: list-databases; any exception goes to the
\* function's except clause, which returns the default candidate
ListDatabases ==
    /\ pc = "list_dbs"
    /\ \E k \in (0..MaxDbs) \cup {-1} :
        IF k = -1
        THEN /\ last_call' = Call("list_dbs", 0, "tool_raise", None)
             /\ RankReturn(DefaultList, FALSE)
        ELSE /\ last_call' = Call("list_dbs", 0, "docs", None)
             /\ db_names' = SubSeq(Databases, 1, k)
             /\ db_coll_map' = {}
             /\ dbi' = 1
             /\ pc' = IF k = 0 THEN "rank_llm" ELSE "list_colls"
             /\ UNCHANGED <<candidates, idx, log>>
    /\ UNCHANGED <<mciVars, variant, iter, user_input, schema, match_result, agg_result,
                   output, error>>

\* agent.py 30-33, gg.py 33-38: list-collections of one database; an
\* exception ends the ranking in agent.py and skips the database in gg.py
ListCollections ==
    /\ pc = "list_colls"
    /\ \E raised \in BOOLEAN :
        /\ last_call' = Call("list_colls", dbi, IF raised THEN "tool_raise" ELSE "docs", None)
        /\ IF raised /\ variant = "agent"
           THEN RankReturn(DefaultList, FALSE)
           ELSE /\ db_coll_map' = IF raised THEN db_coll_map
                                  ELSE db_coll_map \cup {db_names[dbi]}
                /\ dbi' = dbi + 1
                /\ pc' = IF dbi = Len(db_names) THEN "rank_llm" ELSE "list_colls"
                /\ UNCHANGED <<candidates, idx, db_names, log>>
    /\ UNCHANGED <<mciVars, variant, iter, user_input, schema, match_result, agg_result,
                   output, error>>

\* agent.py 47-51, gg.py 53-57: the ranking completion and json.loads of its
\* text; whatever json.loads returns is returned as the candidates
RankCompletion ==
    /\ pc = "rank_llm"
    /\ \/ /\ last_call' = Call("rank_llm", 0, "llm_raise", None)
          /\ RankReturn(DefaultList, FALSE)
       \/ \E content \in RankContents :
            IF JsonLoadsRaises(content)
            THEN /\ last_call' = Call("rank_llm", 0, "bad_json", None)
                 /\ RankReturn(DefaultList, FALSE)
            ELSE /\ last_call' = Call("rank_llm", 0, "json", None)
                 /\ RankReturn(JsonLoads(content), TRUE)
    /\ UNCHANGED <<mciVars, variant, iter, user_input, schema, match_result, agg_result,
                   output, error>>

\* agent.py 138-139 and 155-156, gg.py 144-145 and 161-162: the for statement
\* takes the next candidate and unpacks it, or runs its else clause
ForNext ==
    /\ pc = "for"
    /\ IF ~Iterable(candidates)
       THEN /\ Crash("TypeError")
            /\ UNCHANGED <<idx, output>>
       ELSE IF LoopExhausted(idx, candidates)
       THEN /\ output' = [kind |-> "allfailed", i |-> 0, val |-> None]
            /\ pc' = "input"
            /\ UNCHANGED <<idx, error>>
       ELSE /\ idx' = idx + 1
            /\ output' = output
            /\ IF SubscriptError(candidates.v[idx + 1]) # "none"
               THEN Crash(SubscriptError(candidates.v[idx + 1]))
               ELSE pc' = "schema" /\ error' = error
    /\ UNCHANGED <<mciVars, variant, iter, user_input, candidates, schema, match_result,
                   agg_result, rankLocals, log, last_call>>

\* agent.py 140-144, gg.py 146-150: get_collection_schema; on an exception the
\* candidate is skipped and schema keeps the value it had
FetchSchema ==
    /\ pc = "schema"
    /\ \/ /\ schema' = schema
          /\ log' = Append(log, Entry("schema", idx, FALSE))
          /\ last_call' = Call("schema", idx, "schema_raise", None)
          /\ pc' = SchemaNext(TRUE)
       \/ \E fields \in SchemaDocs :
          /\ schema' = get_collection_schema(fields)
          /\ log' = Append(log, Entry("schema", idx, TRUE))
          /\ last_call' = Call("schema", idx, "docs", None)
          /\ pc' = SchemaNext(FALSE)
    /\ UNCHANGED <<mciVars, variant, iter, user_input, candidates, idx, match_result,
                   agg_result, rankLocals, output, error>>

\* agent.py 146-149, gg.py 152-155: try_query_with_match and the test of its result
TryMatch ==
    /\ pc = "match"
    /\ \E raw \in Results \cup StrategyErrors :
        LET ret == try_query_with_match(variant, raw) IN
        /\ match_result' = ret
        /\ log' = Append(log, Entry("match", idx, Truthy(ret)))
        /\ last_call' = Call("match", idx, raw, ret)
        /\ pc' = MatchNext(ret)
        /\ output' = IF MatchNext(ret) = "input"
                     THEN [kind |-> "match", i |-> idx, val |-> ret]
                     ELSE output
    /\ UNCHANGED <<mciVars, variant, iter, user_input, candidates, idx, schema,
                   agg_result, rankLocals, error>>

\* agent.py 151-154, gg.py 157-160: try_query_with_aggregation and the test of
\* its result
TryAggregate ==
    /\ pc = "agg"
    /\ \E raw \in Results \cup AggErrors(variant) :
        LET ret == try_query_with_aggregation(variant, raw) IN
        /\ agg_result' = ret
        /\ log' = Append(log, Entry("agg", idx, Truthy(ret)))
        /\ last_call' = Call("agg", idx, raw, ret)
        /\ pc' = AggNext(ret)
        /\ output' = IF AggNext(ret) = "input"
                     THEN [kind |-> "agg", i |-> idx, val |-> ret]
                     ELSE output
    /\ UNCHANGED <<mciVars, variant, iter, user_input, candidates, idx, schema,
                   match_result, rankLocals, error>>

Next ==
    \/ ReadRequest
    \/ Plan
    \/ AgentRun
    \/ ListDatabases
    \/ ListCollections
    \/ RankCompletion
    \/ ForNext
    \/ FetchSchema
    \/ TryMatch
    \/ TryAggregate

Spec == Init /\ [][Next]_vars

----------------------------------------------------------------------------
(* make_case_insensitive on its own: every filter and schema, applied twice *)

InitMCI ==
    /\ InitMain
    /\ variant = "agent"
    /\ mci_obj \in FilterDicts(MaxDepth) \cup FilterLeaves
    /\ mci_schema \in {get_collection_schema(f) : f \in FieldDocs}
    /\ mci_out = NoValue
    /\ mci_out2 = NoValue
    /\ mci_n = 0

\* final = make_case_insensitive(raw, schema) (agent.py 72, gg.py 82)
Rewrite ==
    /\ mci_n = 0
    /\ mci_out' = make_case_insensitive(mci_obj, mci_schema)
    /\ mci_n' = 1
    /\ UNCHANGED <<mainVars, mci_obj, mci_schema, mci_out2>>

\* the same call on the result of the first
RewriteAgain ==
    /\ mci_n = 1
    /\ mci_out2' = make_case_insensitive(mci_out, mci_schema)
    /\ mci_n' = 2
    /\ UNCHANGED <<mainVars, mci_obj, mci_schema, mci_out>>

NextMCI ==
    \/ Rewrite
    \/ RewriteAgain

SpecMCI == InitMCI /\ [][NextMCI]_vars

TypeOK ==
    /\ variant \in Variants
    /\ pc \in {"input", "plan", "agent", "list_dbs", "list_colls", "rank_llm",
               "for", "schema", "match", "agg", "exited", "crashed"}
    /\ iter \in 0..MaxIter
    /\ idx \in 0..(MaxRespLen + 1)

----------------------------------------------------------------------------
(* Properties *)

LogIdx == 1..Len(log)
FallbackOps == {"rank", "schema", "match", "agg"}
StrategyOps == {"match", "agg"}
SuccessKinds == {"agent", "match", "agg"}

\* number of entries of the log with the given operation
RECURSIVE CountOp(_, _)
CountOp(l, op) ==
    IF l = <<>> THEN 0
    ELSE (IF Head(l).op = op THEN 1 ELSE 0) + CountOp(Tail(l), op)

\* C1: in the fallback path the calls are made strictly in order: candidates
\* in list order and, for candidate i, the schema fetch, then Match, then
\* Aggregate.  Match(i) directly follows a schema fetch for i that returned,
\* Aggregate(i) directly follows a Match(i) that returned a non-success, and
\* the schema fetch for candidate i+1 directly follows a failed schema fetch
\* for i or an Aggregate(i) that returned a non-success; the first schema
\* fetch follows the ranking.
C1_StrictOrder ==
    \A k \in LogIdx :
        LET e == log[k] IN
        /\ e.op = "match" => k > 1 /\ log[k - 1] = Entry("schema", e.i, TRUE)
        /\ e.op = "agg" => k > 1 /\ log[k - 1] = Entry("match", e.i, FALSE)
        /\ e.op = "schema" =>
            /\ k > 1
            /\ e.i >= 1
            /\ IF e.i = 1 THEN log[k - 1].op = "rank"
               ELSE log[k - 1] \in {Entry("schema", e.i - 1, FALSE),
                                    Entry("agg", e.i - 1, FALSE)}
        /\ e.op \in {"schema", "match", "agg"} => e.i <= Len(candidates.v)

\* two candidates were gone through, the first with both strategies
C1_Witness ==
    \E k \in LogIdx :
        /\ k + 2 <= Len(log)
        /\ log[k] = Entry("agg", 1, FALSE)
        /\ log[k + 1] = Entry("schema", 2, TRUE)
        /\ log[k + 2].op = "match"

\* the request of the current iteration was read
RequestTaken == user_input.bound /\ user_input.iter = iter

\* C2: no exception leaves a resolution attempt: once the request of an
\* iteration is read the process is never aborted, and when the iteration is
\* over it ended with a success result or with the all-retries-failed notice.
C2_NoUncaughtError ==
    RequestTaken =>
        /\ pc # "crashed"
        /\ pc = "input" => output.kind \in SuccessKinds \cup {"allfailed"}

\* the request of the current iteration was read and is not an exit command
RequestRead ==
    /\ RequestTaken
    /\ Lower(user_input.text) \notin ExitCommands

\* C3: agent.run is invoked exactly once per request that is not an exit
\* command: never more than once, and once before the fallback path is
\* entered.
C3_AgentExactlyOnce ==
    RequestRead =>
        /\ CountOp(log, "agent") <= 1
        /\ pc \in {"list_dbs", "list_colls", "rank_llm", "for", "schema", "match", "agg"}
            => CountOp(log, "agent") = 1

\* C4: an answer of agent.run that is not the zero-results text is the final
\* output of the iteration, which ends with no call of the ranker, the schema
\* introspector, Match or Aggregate; an exception of agent.run or the
\* zero-results text makes the controller enter the fallback path.
C4_AgentResultFinal ==
    /\ last_call.op = "agent" =>
        IF last_call.raw \in {"agent_raise", "found0_text"}
        THEN pc = "list_dbs" /\ output.kind = "none"
        ELSE pc = "input" /\ output = [kind |-> "agent", i |-> 0, val |-> last_call.raw]
    /\ output.kind = "agent" =>
        /\ pc = "input"
        /\ \A k \in LogIdx : log[k].op \notin FallbackOps

C4_Witness ==
    /\ pc = "input"
    /\ output = [kind |-> "agent", i |-> 0, val |-> "docs"]
    /\ last_call.op = "agent"

\* C5: after a failed schema fetch for candidate i neither Match nor
\* Aggregate is invoked for i; the controller is at the head of the loop with
\* no final outcome, and from there takes candidate i + 1, or, when i was the
\* last candidate, ends the loop.
C5_SchemaFailureSkips ==
    /\ \A k \in LogIdx :
        (log[k].op = "schema" /\ ~log[k].ok) =>
            \A j \in LogIdx : log[j].op \in StrategyOps => log[j].i # log[k].i
    /\ (last_call.op = "schema" /\ last_call.raw = "schema_raise") =>
        \/ pc = "for" /\ idx = last_call.i /\ output.kind = "none"
        \/ pc \in {"schema", "crashed"} /\ idx = last_call.i + 1 /\ output.kind = "none"
        \/ /\ pc = "input"
           /\ idx = last_call.i
           /\ idx = Len(candidates.v)
           /\ output.kind = "allfailed"

\* the schema fetch failed for candidate 1 of 3 and candidate 2 is next
C5_Witness ==
    /\ last_call = Call("schema", 1, "schema_raise", None)
    /\ Len(candidates.v) = 3
    /\ pc = "schema"
    /\ idx = 2

\* C6: when Match succeeds for candidate i the iteration ends with that
\* result: no Aggregate call for i, no call for a later candidate, no
\* all-retries-failed notice.
C6_MatchSuccessTerminates ==
    \A k \in LogIdx :
        (log[k].op = "match" /\ log[k].ok) =>
            /\ k = Len(log)
            /\ pc = "input"
            /\ output = [kind |-> "match", i |-> log[k].i, val |-> match_result]
            /\ Truthy(match_result)

C6_Witness ==
    /\ pc = "input"
    /\ output.kind = "match"
    /\ output.i = 1
    /\ Len(candidates.v) >= 2

\* C7: when Match returned a non-success and Aggregate returned X as a
\* success for the same candidate, the final output is X and no further
\* candidate is tried.
C7_AggregateSuccessIsOutput ==
    \A k \in LogIdx :
        (log[k].op = "agg" /\ log[k].ok) =>
            /\ k = Len(log)
            /\ k > 1
            /\ log[k - 1] = Entry("match", log[k].i, FALSE)
            /\ pc = "input"
            /\ last_call.op = "agg"
            /\ output = [kind |-> "agg", i |-> log[k].i, val |-> last_call.raw]

C7_Witness ==
    /\ pc = "input"
    /\ output = [kind |-> "agg", i |-> 1, val |-> "docs"]
    /\ Len(candidates.v) >= 2
    /\ ~Truthy(match_result)

\* C8: in the Match strategy a result that is the zero-results text is not
\* returned as a success, and the controller goes on to Aggregate for the
\* same candidate.
C8_MatchZeroIsEmpty ==
    (last_call.op = "match" /\ last_call.raw = "found0_text") =>
        /\ last_call.ret = None
        /\ pc = "agg"
        /\ output.kind = "none"

\* C9: an Aggregate outcome that is the zero-results text or a failure makes
\* the controller advance to the next candidate; no iteration ends as a
\* success with an Aggregate result that is the zero-results text.
C9_AggregateZeroAdvances ==
    /\ (last_call.op = "agg"
            /\ last_call.raw \in {"found0_text"} \cup AggErrors(variant)) =>
        pc = "for" /\ output.kind = "none"
    /\ output.kind = "agg" => output.val # "found0_text"

\* a document that is a well-formed array of {database, collection} pairs
WellFormedPairs(doc) ==
    /\ doc.t = "array"
    /\ \A k \in 1..Len(doc.v) : SubscriptError(doc.v[k]) = "none"

\* C10: for a ranking completion whose text is not a well-formed JSON array
\* of {database, collection} pairs, suggest_db_collection_candidates returns
\* exactly the default candidate.
C10_MalformedRankingGivesDefault ==
    (pc = "for" /\ idx = 0 /\ last_call.op = "rank_llm"
        /\ (last_call.raw = "bad_json" \/ ~WellFormedPairs(candidates))) =>
        candidates = DefaultList

\* the controller is in the retry path of the current iteration
InFallback ==
    pc \in {"list_dbs", "list_colls", "rank_llm", "for", "schema", "match", "agg"}

InLog(e) == \E k \in LogIdx : log[k] = e

\* C11: the candidate sequence the ranker returns has at most 3 elements,
\* and at most 3 candidates are introspected in one resolution.
C11_AtMostThreeCandidates ==
    /\ candidates.t = "array" => Len(candidates.v) <= TopN
    /\ CountOp(log, "schema") <= TopN

\* C12: a failure of list-collections for one database only leaves that
\* database out: the inventory loop goes on with the next database (or to the
\* completion call) and what was listed so far is kept.
C12_CollectionFailureExcludesOnlyThatDb ==
    (last_call.op = "list_colls" /\ last_call.raw = "tool_raise") =>
        /\ pc \in {"list_colls", "rank_llm"}
        /\ dbi = last_call.i + 1
        /\ db_names[last_call.i] \notin db_coll_map
        /\ \A k \in LogIdx : log[k].op # "rank"

\* C13: the schema fetch counts as failed when the collaborator raises and
\* also when it returns no field descriptions; in both cases neither Match
\* nor Aggregate is the next call.
C13_EmptySchemaIsUnavailable ==
    (last_call.op = "schema"
        /\ (last_call.raw = "schema_raise" \/ schema.fields = <<>>)) =>
        pc \notin {"match", "agg"}

\* C17: nothing survives across requests: the request text, the candidate
\* list and the schema the retry path uses were produced in the same
\* iteration.
C17_NothingSurvives ==
    /\ InFallback => user_input.bound /\ user_input.iter = iter
    /\ pc \in {"for", "schema", "match", "agg"} => candidates.t \notin {Unbound, Leftover}
    /\ pc \in {"match", "agg"} => schema.t = "schema"

\* every candidate of the list ended in a schema failure or in a Match
\* non-success followed by an Aggregate non-success
AllCandidatesFailed ==
    \A i \in 1..Len(candidates.v) :
        \/ InLog(Entry("schema", i, FALSE))
        \/ InLog(Entry("match", i, FALSE)) /\ InLog(Entry("agg", i, FALSE))

\* C18: the all-retries-failed notice is the outcome exactly when the loop
\* went through every candidate of the list and none gave a success; an
\* iteration never has both the notice and a success.
C18_AllFailedExactly ==
    /\ output.kind = "allfailed" =>
        /\ pc = "input"
        /\ Iterable(candidates)
        /\ idx = Len(candidates.v)
        /\ AllCandidatesFailed
        /\ \A k \in LogIdx : log[k].op \in StrategyOps \cup {"agent"} => ~log[k].ok
    /\ (pc = "input" /\ \E k \in LogIdx : log[k].op = "rank") =>
        IF \E k \in LogIdx : log[k].op \in StrategyOps /\ log[k].ok
        THEN output.kind \in StrategyOps
        ELSE output.kind = "allfailed" /\ AllCandidatesFailed

\* a single candidate whose schema fetch failed
C18_Witness ==
    /\ output.kind = "allfailed"
    /\ Len(candidates.v) = 1
    /\ last_call = Call("schema", 1, "schema_raise", None)

\* C19: a resolution that entered the retry path ends in a success or in the
\* all-retries-failed notice, after at most one ranking and, per candidate,
\* at most one schema fetch, one Match and one Aggregate.
C19_FallbackTerminates ==
    /\ CountOp(log, "rank") <= 1
    /\ \A j, k \in LogIdx :
        (log[j].op = log[k].op /\ log[j].i = log[k].i
            /\ log[j].op \in {"schema", "match", "agg"}) => j = k
    /\ ((\E k \in LogIdx : log[k].op = "rank") /\ ~InFallback) =>
        output.kind \in StrategyOps \cup {"allfailed"}

\* results that Python takes as false
Falsy == {"empty_list", "empty_text", None}

\* C20: a Match or Aggregate call that returns an empty result is never
\* reported as a success: after such a Match the controller calls Aggregate
\* for the same candidate, after such an Aggregate it goes to the next
\* candidate.
C20_EmptyResultIsNoSuccess ==
    /\ (last_call.op = "match" /\ last_call.raw \in Falsy) =>
        pc = "agg" /\ idx = last_call.i /\ output.kind = "none"
    /\ (last_call.op = "agg" /\ last_call.raw \in Falsy) =>
        pc \in {"for", "schema", "crashed", "input"}
            /\ output.kind \in {"none", "allfailed"}
    /\ output.kind \in StrategyOps => output.val \notin Falsy

\* Match returned an empty list and Aggregate was called for the candidate
C20_Witness ==
    /\ pc = "for"
    /\ match_result = "empty_list"
    /\ last_call.op = "agg"
    /\ last_call.raw = "empty_text"
    /\ idx = 1

\* C14: make_case_insensitive is idempotent: the second rewrite with the
\* same schema returns what the first returned.
C14_Idempotent == mci_n = 2 => mci_out2 = mci_out

\* what C15 says of input a and output b: the same keys in the same order at
\* each level of the input; a string under a key that is no string field, and
\* every value that is neither a string nor a mapping, is unchanged
RECURSIVE Preserved(_, _, _)
Preserved(a, b, sch) ==
    IF a.t # "dict" THEN b = a
    ELSE /\ b.t = "dict"
         /\ Len(b.d) = Len(a.d)
         /\ \A n \in 1..Len(a.d) :
              LET k == a.d[n][1]
                  v == a.d[n][2]
                  w == b.d[n][2]
              IN /\ b.d[n][1] = k
                 /\ (v.t = "str" /\ k \notin Range(sch.string_fields)) => w = v
                 /\ v.t \notin {"str", "dict"} => w = v
                 /\ v.t = "dict" => Preserved(v, w, sch)

\* C15: make_case_insensitive never turns the value of a key absent from the
\* string-field set into a pattern condition; such a value and every
\* non-string non-mapping value is unchanged under the same key, and the
\* output has exactly the keys of the input at each nesting level.
C15_NonStringFieldsUntouched ==
    mci_n >= 1 => Preserved(mci_obj, mci_out, mci_schema)

\* a nested filter with a string under a string field and under another field
C15_Witness ==
    /\ mci_n = 1
    /\ mci_schema.string_fields = <<"color">>
    /\ mci_obj = Dict(<< <<"year", Dict(<< <<"year", Str("red")>>, <<"color", Str("red")>> >>)>>,
                         <<"$regex", Str("red")>> >>)
    /\ mci_out = Dict(<< <<"year", Dict(<< <<"year", Str("red")>>, <<"color", Pattern("red")>> >>)>>,
                         <<"$regex", Str("red")>> >>)

\* what C16 says of input a and output b: every string of the input that is
\* keyed by a string field, at any depth, is a pattern condition in the output
RECURSIVE Rewritten(_, _, _)
Rewritten(a, b, sch) ==
    IF a.t = "dict"
    THEN /\ b.t = "dict"
         /\ Len(b.d) = Len(a.d)
         /\ \A n \in 1..Len(a.d) :
              LET k == a.d[n][1]
                  v == a.d[n][2]
                  w == b.d[n][2]
              IN IF v.t = "str" /\ k \in Range(sch.string_fields)
                 THEN w = Pattern(v.s)
                 ELSE Rewritten(v, w, sch)
    ELSE IF a.t = "list"
    THEN /\ b.t = "list"
         /\ Len(b.d) = Len(a.d)
         /\ \A n \in 1..Len(a.d) : Rewritten(a.d[n][2], b.d[n][2], sch)
    ELSE TRUE

\* C16: every string value keyed by a name of the string-field set becomes a
\* pattern condition, at any nesting depth of the filter; no nested object is
\* left as it was.
C16_RewrittenAtAnyDepth ==
    mci_n >= 1 => Rewritten(mci_obj, mci_out, mci_schema)

====
